---- MODULE Spec2Model ----
(***************************************************************************)
(* Model of the Shrimpl VS Code extension (src/extension.ts) and of the    *)
(* shrimpl-lsp backend as the repository's README documents it             *)
(* (src/unnamed/part_000).                                                 *)
(*                                                                         *)
(* Strings are sequences of one-character strings, so that trim, replace,  *)
(* includes, path.isAbsolute and path.join are computed character by       *)
(* character.  path.* is the POSIX flavour of Node's path module.          *)
(***************************************************************************)
EXTENDS Integers, Sequences, FiniteSets, TLC

(***************************************************************************)
(* Bounds                                                                  *)
(***************************************************************************)
\* number of pieces a raw value handed to resolveServerCommand is made of
MaxPieces == 3

(***************************************************************************)
(* String constants of src/extension.ts                                    *)
(***************************************************************************)
\* "${workspaceFolder}", the pattern of the regular expression of line 45
WorkspaceFolderVar ==
  <<"$", "{", "w", "o", "r", "k", "s", "p", "a", "c", "e",
    "F", "o", "l", "d", "e", "r", "}">>

\* "${workspaceFolderBasename}", the pattern of the regular expression of line 49
WorkspaceFolderBasenameVar ==
  <<"$", "{", "w", "o", "r", "k", "s", "p", "a", "c", "e",
    "F", "o", "l", "d", "e", "r", "B", "a", "s", "e", "n", "a", "m", "e", "}">>

\* "shrimpl-lsp", the fallback of getServerCommand
DefaultCommand == <<"s", "h", "r", "i", "m", "p", "l", "-", "l", "s", "p">>

\* config.get returns undefined when the setting is not provided
Undefined == "undefined"

(***************************************************************************)
(* String.prototype.trim                                                   *)
(***************************************************************************)
IsWhitespace(c) == c \in {" ", "\t", "\n", "\r"}

RECURSIVE TrimStart(_)
TrimStart(s) ==
  IF s = <<>> THEN <<>>
  ELSE IF IsWhitespace(Head(s)) THEN TrimStart(Tail(s)) ELSE s

RECURSIVE TrimEnd(_)
TrimEnd(s) ==
  IF s = <<>> THEN <<>>
  ELSE IF IsWhitespace(s[Len(s)]) THEN TrimEnd(SubSeq(s, 1, Len(s) - 1)) ELSE s

trim(s) == TrimEnd(TrimStart(s))

(***************************************************************************)
(* String.prototype.replace(/literal/g, replacement): every non-overlapping*)
(* match, left to right; in the replacement string "$$" is a "$", "$&" the *)
(* match, "$`" the text before the match and "$'" the text after it.       *)
(***************************************************************************)
MatchesAt(s, i, pat) ==
  /\ i + Len(pat) - 1 <= Len(s)
  /\ SubSeq(s, i, i + Len(pat) - 1) = pat

RECURSIVE ExpandReplacement(_, _, _, _)
ExpandReplacement(repl, s, i, n) ==
  IF repl = <<>> THEN <<>>
  ELSE IF Head(repl) = "$" /\ Len(repl) >= 2 /\ repl[2] \in {"$", "&", "`", "'"}
    THEN (CASE repl[2] = "$" -> <<"$">>
            [] repl[2] = "&" -> SubSeq(s, i, i + n - 1)
            [] repl[2] = "`" -> SubSeq(s, 1, i - 1)
            [] repl[2] = "'" -> SubSeq(s, i + n, Len(s)))
         \o ExpandReplacement(SubSeq(repl, 3, Len(repl)), s, i, n)
    ELSE <<Head(repl)>> \o ExpandReplacement(Tail(repl), s, i, n)

\* the position of the first match of pat at or after i, or 0
NextMatch(s, i, pat) ==
  LET matches == { j \in i..Len(s) : MatchesAt(s, j, pat) }
  IN IF matches = {} THEN 0
     ELSE CHOOSE j \in matches : \A k \in matches : j <= k

\* the text from i on is copied up to the next match, the match is replaced and
\* the scan goes on after it
RECURSIVE ReplaceFrom(_, _, _, _)
ReplaceFrom(s, i, pat, repl) ==
  LET m == NextMatch(s, i, pat)
  IN IF m = 0 THEN SubSeq(s, i, Len(s))
     ELSE SubSeq(s, i, m - 1)
          \o ExpandReplacement(repl, s, m, Len(pat))
          \o ReplaceFrom(s, m + Len(pat), pat, repl)

replaceAll(s, pat, repl) == ReplaceFrom(s, 1, pat, repl)

includes(s, c) == \E i \in 1..Len(s) : s[i] = c

(***************************************************************************)
(* path.isAbsolute, path.normalize and path.join (POSIX)                   *)
(***************************************************************************)
isAbsolute(p) == Len(p) > 0 /\ p[1] = "/"

\* the position of the first "/" at or after i, or Len(p) + 1
NextSeparator(p, i) ==
  LET seps == { j \in i..Len(p) : p[j] = "/" }
  IN IF seps = {} THEN Len(p) + 1
     ELSE CHOOSE j \in seps : \A k \in seps : j <= k

\* the segments of p from i on, between "/" separators, empty ones included
RECURSIVE SplitFrom(_, _)
SplitFrom(p, i) ==
  LET e == NextSeparator(p, i)
  IN IF e > Len(p) THEN << SubSeq(p, i, Len(p)) >>
     ELSE << SubSeq(p, i, e - 1) >> \o SplitFrom(p, e + 1)

Segments(p) == SplitFrom(p, 1)

DotDot == <<".", ".">>

\* normalizeString: drops "" and ".", lets ".." remove the segment before it
RECURSIVE NormalizeSegments(_, _, _)
NormalizeSegments(segs, acc, allowAboveRoot) ==
  IF segs = <<>> THEN acc
  ELSE LET seg == Head(segs)
           rest == Tail(segs)
       IN IF seg = <<>> \/ seg = <<".">>
            THEN NormalizeSegments(rest, acc, allowAboveRoot)
          ELSE IF seg = DotDot
            THEN IF acc # <<>> /\ acc[Len(acc)] # DotDot
                   THEN NormalizeSegments(rest, SubSeq(acc, 1, Len(acc) - 1), allowAboveRoot)
                 ELSE IF allowAboveRoot
                   THEN NormalizeSegments(rest, Append(acc, seg), allowAboveRoot)
                 ELSE NormalizeSegments(rest, acc, allowAboveRoot)
          ELSE NormalizeSegments(rest, Append(acc, seg), allowAboveRoot)

RECURSIVE JoinSegments(_)
JoinSegments(segs) ==
  IF segs = <<>> THEN <<>>
  ELSE IF Len(segs) = 1 THEN Head(segs)
  ELSE Head(segs) \o <<"/">> \o JoinSegments(Tail(segs))

normalize(p) ==
  IF p = <<>> THEN <<".">>
  ELSE LET abs == p[1] = "/"
           trailingSeparator == p[Len(p)] = "/"
           body == JoinSegments(NormalizeSegments(Segments(p), <<>>, ~abs))
       IN IF body = <<>>
            THEN IF abs THEN <<"/">>
                 ELSE IF trailingSeparator THEN <<".", "/">> ELSE <<".">>
          ELSE (IF abs THEN <<"/">> ELSE <<>>)
               \o body
               \o (IF trailingSeparator THEN <<"/">> ELSE <<>>)

\* path.join(a, b): the non-empty arguments joined by "/" and normalized
join(a, b) ==
  IF a = <<>> /\ b = <<>> THEN <<".">>
  ELSE IF a = <<>> THEN normalize(b)
  ELSE IF b = <<>> THEN normalize(a)
  ELSE normalize(a \o <<"/">> \o b)

(***************************************************************************)
(* resolveServerCommand and getServerCommand                               *)
(***************************************************************************)
\* vscode.workspace.workspaceFolders: a sequence of folders (empty: none open)
HasFolder(folders) == Len(folders) > 0

\* lines 42-52: the trimmed value with the two variables substituted
Substituted(rawValue, folders) ==
  LET trimmed == trim(rawValue)
      afterFolder ==
        IF HasFolder(folders) /\ folders[1].fsPath # <<>>
          THEN replaceAll(trimmed, WorkspaceFolderVar, folders[1].fsPath)
          ELSE trimmed
  IN IF HasFolder(folders) /\ folders[1].name # <<>>
       THEN replaceAll(afterFolder, WorkspaceFolderBasenameVar, folders[1].name)
       ELSE afterFolder

\* as hasSlash, taking every value for a path
hasSlashAlways(resolved) == TRUE

hasSlash(resolved) == includes(resolved, "/") \/ includes(resolved, "\\")

\* as resolveServerCommand, without the isAbsolute test of line 59
resolveServerCommandJoinsAbsolute(rawValue, folders) ==
  LET resolved == Substituted(rawValue, folders)
      wsPath == IF HasFolder(folders) THEN folders[1].fsPath ELSE <<>>
  IN IF hasSlash(resolved) /\ wsPath # <<>>
       THEN join(wsPath, resolved)
       ELSE resolved

resolveServerCommand(rawValue, folders) ==
  LET resolved == Substituted(rawValue, folders)
      wsPath == IF HasFolder(folders) THEN folders[1].fsPath ELSE <<>>
  IN IF hasSlash(resolved) /\ ~isAbsolute(resolved) /\ wsPath # <<>>
       THEN join(wsPath, resolved)
       ELSE resolved

\* the two lines resolveServerCommand appends to the output channel
ResolveLog(rawValue, folders) ==
  << [kind |-> "raw", text |-> rawValue],
     [kind |-> "resolved", text |-> resolveServerCommand(rawValue, folders)] >>

\* as ConfiguredValue, falling back only when the setting is undefined
ConfiguredValueBlankKept(setting) ==
  IF setting = Undefined THEN DefaultCommand ELSE trim(setting)

\* config.get<string>("lsp.path")?.trim() || "shrimpl-lsp"
ConfiguredValue(setting) ==
  IF setting = Undefined THEN DefaultCommand
  ELSE IF trim(setting) = <<>> THEN DefaultCommand
  ELSE trim(setting)

getServerCommand(setting, folders) ==
  resolveServerCommand(ConfiguredValue(setting), folders)

(***************************************************************************)
(* Inputs                                                                  *)
(***************************************************************************)
\* the pieces raw values and settings are concatenated from
Pieces ==
  { <<"a">>, <<"/">>, <<"\\">>, <<" ">>, <<".", ".">>, <<"$">>,
    WorkspaceFolderVar, WorkspaceFolderBasenameVar, DefaultCommand }

RECURSIVE Concatenations(_)
Concatenations(n) ==
  IF n = 0 THEN { <<>> }
  ELSE LET shorter == Concatenations(n - 1)
       IN shorter \cup { s \o p : s \in shorter, p \in Pieces }

RawValues == Concatenations(MaxPieces)

\* the values 'shrimpl.lsp.path' takes: empty, blank, a command name, a relative
\* path, a path under ${workspaceFolder}
CfgValues ==
  { <<>>, <<" ", "\t">>, <<"a">>, <<"b", "/", "a">>, WorkspaceFolderVar \o <<"/", "a">> }

\* a setting is <<>> when undefined and <<value>> when set
Settings == { <<>> } \cup { <<v>> : v \in CfgValues }

SettingValue(s) == IF s = <<>> THEN Undefined ELSE s[1]

FolderWs == [fsPath |-> <<"/", "w", "s">>, name |-> <<"w", "s">>]
FolderOther == [fsPath |-> <<"/", "o", "/", "p", "$", "$">>, name |-> <<"p", "$", "$">>]

\* no folder open, one folder, two folders (the first one counts)
Workspaces == { <<>>, <<FolderWs>>, <<FolderOther, FolderWs>> }

\* what client.start() can reject with: an Error, or a value that is not an Error
StartErrors ==
  { [isError |-> TRUE, message |-> <<"E", "N", "O", "E", "N", "T">>, value |-> <<>>],
    [isError |-> FALSE, message |-> <<>>, value |-> <<"b", "o", "o", "m">>] }

NoError == [isError |-> FALSE, message |-> <<>>, value |-> <<>>]

\* err instanceof Error ? err.message : String(err)
ErrorMessage(err) == IF err.isError THEN err.message ELSE err.value

\* number of configuration-change events delivered in one session
MaxConfigEvents == 2
\* number of deactivate() calls in one session
MaxDeactivateCalls == 2

(***************************************************************************)
(* shrimpl-lsp: source texts, the external parser and static checker       *)
(***************************************************************************)
\* parser errors are reported for the lines 1..MaxLine (and for line 12)
MaxLine == 2
\* number of notification handlers between their store and their publish
MaxInFlight == 2

Uris == { "file:///a.shr", "file:///b.shr" }

Text(kind, line) == [kind |-> kind, line |-> line]

\* a text stands for what the parser and the checker make of it: it parses and
\* checks cleanly, it parses and the checker reports an error and a warning,
\* the parser fails at a line, or the parser fails with a message of another shape
Texts ==
  { Text("clean", 0), Text("static", 0), Text("garbled", 0) }
  \cup { Text("syntax", n) : n \in (1..MaxLine) \cup {12} }

Digit(d) == CASE d = 0 -> "0" [] d = 1 -> "1" [] d = 2 -> "2" [] d = 3 -> "3"
              [] d = 4 -> "4" [] d = 5 -> "5" [] d = 6 -> "6" [] d = 7 -> "7"
              [] d = 8 -> "8" [] d = 9 -> "9"

RECURSIVE Decimal(_)
Decimal(n) == IF n < 10 THEN << Digit(n) >> ELSE Append(Decimal(n \div 10), Digit(n % 10))

\* parse_program: Ok(program) or Err(message)
parse_program(text) ==
  CASE text.kind = "syntax" ->
         [ok |-> FALSE,
          message |-> <<"L", "i", "n", "e", " ">> \o Decimal(text.line)
                      \o <<":", " ", "b", "a", "d">>]
    [] text.kind = "garbled" ->
         [ok |-> FALSE, message |-> <<"L", "i", "n", "e", "?", " ", "b", "a", "d">>]
    [] OTHER -> [ok |-> TRUE, message |-> <<>>]

\* docs::build_diagnostics: {"errors": [...], "warnings": [...]}
build_diagnostics(program) ==
  IF program.kind = "static"
    THEN [errors |-> << [message |-> "unknown function", kind |-> "error"] >>,
          warnings |-> << [message |-> "unused function", kind |-> "warning"] >>]
    ELSE [errors |-> <<>>, warnings |-> <<>>]

(***************************************************************************)
(* analyze_source, convert_static_diagnostics and reanalyze                *)
(***************************************************************************)
IsDigit(c) == c \in {"0", "1", "2", "3", "4", "5", "6", "7", "8", "9"}

DigitValue(c) == CHOOSE d \in 0..9 : Digit(d) = c

LinePrefix == <<"L", "i", "n", "e", " ">>

RECURSIVE ReadNumber(_, _, _)
\* the number whose digits start at msg[i] and end at a ":", or -1
ReadNumber(msg, i, acc) ==
  IF i > Len(msg) THEN -1
  ELSE IF IsDigit(msg[i]) THEN ReadNumber(msg, i + 1, acc * 10 + DigitValue(msg[i]))
  ELSE IF msg[i] = ":" /\ i > Len(LinePrefix) + 1 THEN acc
  ELSE -1

\* the N of a message of the form "Line N: ...", or -1
LineNumberOf(msg) ==
  IF MatchesAt(msg, 1, LinePrefix) THEN ReadNumber(msg, Len(LinePrefix) + 1, 0) ELSE -1

Diagnostic(line, startCol, endCol, severity, message) ==
  [line |-> line, startCol |-> startCol, endCol |-> endCol,
   severity |-> severity, message |-> message]

\* the severity of a parser-failure diagnostic (the README does not give it)
ParseErrorSeverity == "Error"

\* as LineDiagnostic, keeping the parser's 1-based line
LineDiagnosticOneBased(n, message) == Diagnostic(n, 0, 200, ParseErrorSeverity, message)

\* the one diagnostic of a parser failure "Line N: ...": 0-based line, columns 0..200
LineDiagnostic(n, message) == Diagnostic(n - 1, 0, 200, ParseErrorSeverity, message)

\* the diagnostic of a parser failure whose line cannot be extracted
FallbackDiagnostic(message) == Diagnostic(0, 0, 1, ParseErrorSeverity, message)

\* (diagnostics, program_opt); the option is <<>> or <<program>>
analyze_source(text) ==
  LET parsed == parse_program(text)
  IN IF parsed.ok
       THEN [diagnostics |-> <<>>, program |-> << text >>]
       ELSE [diagnostics |->
               IF LineNumberOf(parsed.message) >= 1
                 THEN << LineDiagnostic(LineNumberOf(parsed.message), parsed.message) >>
                 ELSE << FallbackDiagnostic(parsed.message) >>,
             program |-> <<>>]

StaticDiagnostic(entry) ==
  Diagnostic(0, 0, 1, IF entry.kind = "error" THEN "Error" ELSE "Warning", entry.message)

convert_static_diagnostics(json) ==
  [i \in 1..Len(json.errors) |-> StaticDiagnostic(json.errors[i])]
  \o [i \in 1..Len(json.warnings) |-> StaticDiagnostic(json.warnings[i])]

\* the diagnostics reanalyze publishes for a text
reanalyze(text) ==
  LET analysis == analyze_source(text)
  IN IF analysis.program # <<>>
       THEN analysis.diagnostics
            \o convert_static_diagnostics(build_diagnostics(analysis.program[1]))
       ELSE analysis.diagnostics

\* reanalyze calls docs::build_diagnostics only when there is a program
InvokesChecker(text) == analyze_source(text).program # <<>>

\* as Publish, adding to the set the client holds
PublishMerged(current, uri, diagnostics) ==
  [current EXCEPT ![uri] = current[uri] \o diagnostics]

\* publish_diagnostics(uri, diagnostics, None): the set of uri becomes diagnostics
Publish(current, uri, diagnostics) == [current EXCEPT ![uri] = diagnostics]

(***************************************************************************)
(* State                                                                   *)
(***************************************************************************)
VARIABLES
  workspaceFolders,   \* vscode.workspace.workspaceFolders
  setting,            \* the value of 'shrimpl.lsp.path'
  client,             \* the module-level client reference
  serverCommand,      \* the command of the client's ServerOptions
  activatePc,         \* position of activate(): idle, awaitStart, done, rejected
  startOutcome,       \* none, pending, resolved, rejected
  startError,         \* what client.start() rejected with
  outputChannel,      \* the lines of the "Shrimpl" output channel
  notifications,      \* the messages shown to the user
  listening,          \* the onDidChangeConfiguration handler is registered
  startCalls,         \* calls of client.start()
  stopCalls,          \* calls of client.stop()
  resolveCalls,       \* calls of getServerCommand
  affectingEvents,    \* configuration events that affect 'shrimpl.lsp.path'
  otherEvents,        \* configuration events that do not
  deactivatePc,       \* position of each deactivate() call
  rawValue,           \* argument of a direct resolveServerCommand call
  resolvePc,          \* idle, resolved, got
  result,             \* the string the call returned
  documents,          \* Backend.documents: uri -> <<>> (absent) or <<text>>
  published,          \* the diagnostics the client holds for each uri
  previous,           \* the diagnostics it held before the latest publication
  checked,            \* the latest reanalyze of the uri called the static checker
  inflight            \* handlers that have been called and have not returned yet

extVars ==
  << setting, client, serverCommand, activatePc, startOutcome, startError,
     outputChannel, notifications, listening, startCalls, stopCalls,
     resolveCalls, affectingEvents, otherEvents, deactivatePc >>

callVars == << rawValue, resolvePc, result >>

srvVars == << documents, published, previous, checked, inflight >>

vars == << workspaceFolders, extVars, callVars, srvVars >>

Line(kind, text) == [kind |-> kind, text |-> text]

Notification(level, kind, text) == [level |-> level, kind |-> kind, text |-> text]

ExtInit ==
  /\ client = Undefined
  /\ serverCommand = <<>>
  /\ activatePc = "idle"
  /\ startOutcome = "none"
  /\ startError = NoError
  /\ outputChannel = <<>>
  /\ notifications = <<>>
  /\ listening = FALSE
  /\ startCalls = 0
  /\ stopCalls = 0
  /\ resolveCalls = 0
  /\ affectingEvents = 0
  /\ otherEvents = 0
  /\ deactivatePc = [d \in 1..MaxDeactivateCalls |-> "idle"]

CallIdle ==
  /\ rawValue = <<>>
  /\ resolvePc = "idle"
  /\ result = <<>>

\* Backend::new: no document, nothing published
ServerInit ==
  /\ documents = [u \in Uris |-> <<>>]
  /\ published = [u \in Uris |-> <<>>]
  /\ previous = [u \in Uris |-> <<>>]
  /\ checked = [u \in Uris |-> FALSE]
  /\ inflight = {}

(***************************************************************************)
(* activate(): the synchronous part up to `await client.start()`           *)
(***************************************************************************)
Activate ==
  /\ activatePc = "idle"
  /\ serverCommand' = getServerCommand(SettingValue(setting), workspaceFolders)
  /\ resolveCalls' = resolveCalls + 1
  /\ client' = "client"
  /\ outputChannel' =
       outputChannel
       \o ResolveLog(ConfiguredValue(SettingValue(setting)), workspaceFolders)
       \o << Line("starting", <<>>) >>
  /\ startCalls' = startCalls + 1
  /\ startOutcome' = "pending"
  /\ activatePc' = "awaitStart"
  /\ UNCHANGED << workspaceFolders, setting, startError, notifications, listening,
                  stopCalls, affectingEvents, otherEvents, deactivatePc, callVars, srvVars >>

\* client.start() resolved: lines 137-142, then the handler registration of 155-166
StartResolved ==
  /\ activatePc = "awaitStart"
  /\ startOutcome' = "resolved"
  /\ outputChannel' = Append(outputChannel, Line("ready", <<>>))
  /\ notifications' = Append(notifications, Notification("information", "started", <<>>))
  /\ listening' = TRUE
  /\ activatePc' = "done"
  /\ UNCHANGED << workspaceFolders, setting, client, serverCommand, startError,
                  startCalls, stopCalls, resolveCalls, affectingEvents, otherEvents,
                  deactivatePc, callVars, srvVars >>

\* as StartRejected, without the try/catch: activate() rejects
StartRejectedUncaught(err) ==
  /\ activatePc = "awaitStart"
  /\ startOutcome' = "rejected"
  /\ startError' = err
  /\ activatePc' = "rejected"
  /\ UNCHANGED << workspaceFolders, setting, client, serverCommand, outputChannel,
                  notifications, listening,
                  startCalls, stopCalls, resolveCalls, affectingEvents, otherEvents,
                  deactivatePc, callVars, srvVars >>

\* client.start() rejected: the catch block of 143-152, then the registration
StartRejected(err) ==
  /\ activatePc = "awaitStart"
  /\ startOutcome' = "rejected"
  /\ startError' = err
  /\ outputChannel' = Append(outputChannel, Line("failed", ErrorMessage(err)))
  /\ notifications' = Append(notifications, Notification("error", "failed", ErrorMessage(err)))
  /\ listening' = TRUE
  /\ activatePc' = "done"
  /\ UNCHANGED << workspaceFolders, setting, client, serverCommand,
                  startCalls, stopCalls, resolveCalls, affectingEvents, otherEvents,
                  deactivatePc, callVars, srvVars >>

\* as ConfigurationChanged, restarting the client with the new path
ConfigurationChangedRestarts(affects, newSetting) ==
  /\ affectingEvents + otherEvents < MaxConfigEvents
  /\ IF affects
       THEN /\ setting' = newSetting
            /\ affectingEvents' = affectingEvents + 1
            /\ UNCHANGED otherEvents
       ELSE /\ otherEvents' = otherEvents + 1
            /\ UNCHANGED << setting, affectingEvents >>
  /\ IF listening /\ affects
       THEN /\ serverCommand' = getServerCommand(SettingValue(newSetting), workspaceFolders)
            /\ resolveCalls' = resolveCalls + 1
            /\ stopCalls' = stopCalls + 1
            /\ startCalls' = startCalls + 1
       ELSE UNCHANGED << serverCommand, resolveCalls, stopCalls, startCalls >>
  /\ UNCHANGED << workspaceFolders, client, activatePc, startOutcome, outputChannel,
                  notifications, startError, listening, deactivatePc, callVars, srvVars >>

\* as ConfigurationChanged, without the affectsConfiguration test of line 157
ConfigurationChangedAnyKey(affects, newSetting) ==
  /\ affectingEvents + otherEvents < MaxConfigEvents
  /\ IF affects
       THEN /\ setting' = newSetting
            /\ affectingEvents' = affectingEvents + 1
            /\ UNCHANGED otherEvents
       ELSE /\ otherEvents' = otherEvents + 1
            /\ UNCHANGED << setting, affectingEvents >>
  /\ IF listening
       THEN /\ outputChannel' = Append(outputChannel, Line("configChanged", <<>>))
            /\ notifications' =
                 Append(notifications, Notification("information", "configChanged", <<>>))
       ELSE UNCHANGED << outputChannel, notifications >>
  /\ UNCHANGED << workspaceFolders, client, serverCommand, activatePc, startOutcome,
                  startError, listening, startCalls, stopCalls, resolveCalls,
                  deactivatePc, callVars, srvVars >>

(***************************************************************************)
(* A configuration-change event; the handler of lines 156-165 runs only    *)
(* once it is registered                                                   *)
(***************************************************************************)
ConfigurationChanged(affects, newSetting) ==
  /\ affectingEvents + otherEvents < MaxConfigEvents
  /\ IF affects
       THEN /\ setting' = newSetting
            /\ affectingEvents' = affectingEvents + 1
            /\ UNCHANGED otherEvents
       ELSE /\ otherEvents' = otherEvents + 1
            /\ UNCHANGED << setting, affectingEvents >>
  /\ IF listening /\ affects
       THEN /\ outputChannel' = Append(outputChannel, Line("configChanged", <<>>))
            /\ notifications' =
                 Append(notifications, Notification("information", "configChanged", <<>>))
       ELSE UNCHANGED << outputChannel, notifications >>
  /\ UNCHANGED << workspaceFolders, client, serverCommand, activatePc, startOutcome,
                  startError, listening, startCalls, stopCalls, resolveCalls,
                  deactivatePc, callVars, srvVars >>

(***************************************************************************)
(* deactivate(): up to `await client.stop()`, and its finally block        *)
(***************************************************************************)
Deactivate(d) ==
  /\ deactivatePc[d] = "idle"
  /\ \A e \in 1..(d - 1) : deactivatePc[e] # "idle"
  /\ IF client = Undefined
       THEN /\ deactivatePc' = [deactivatePc EXCEPT ![d] = "returned"]
            /\ UNCHANGED stopCalls
       ELSE /\ deactivatePc' = [deactivatePc EXCEPT ![d] = "awaitStop"]
            /\ stopCalls' = stopCalls + 1
  /\ UNCHANGED << workspaceFolders, setting, client, serverCommand, activatePc,
                  startOutcome, startError, outputChannel, notifications, listening,
                  startCalls, resolveCalls, affectingEvents, otherEvents, callVars, srvVars >>

\* as StopSettled, clearing the reference after the await instead of in finally
StopSettledKeepsClientOnFailure(d, ok) ==
  /\ deactivatePc[d] = "awaitStop"
  /\ client' = IF ok THEN Undefined ELSE client
  /\ deactivatePc' = [deactivatePc EXCEPT ![d] = IF ok THEN "returned" ELSE "rejected"]
  /\ UNCHANGED << workspaceFolders, setting, serverCommand, activatePc,
                  startOutcome, startError, outputChannel, notifications, listening,
                  startCalls, stopCalls, resolveCalls, affectingEvents, otherEvents,
                  callVars, srvVars >>

StopSettled(d, ok) ==
  /\ deactivatePc[d] = "awaitStop"
  /\ client' = Undefined
  /\ deactivatePc' = [deactivatePc EXCEPT ![d] = IF ok THEN "returned" ELSE "rejected"]
  /\ UNCHANGED << workspaceFolders, setting, serverCommand, activatePc,
                  startOutcome, startError, outputChannel, notifications, listening,
                  startCalls, stopCalls, resolveCalls, affectingEvents, otherEvents,
                  callVars, srvVars >>

Init ==
  /\ workspaceFolders \in Workspaces
  /\ setting \in Settings
  /\ ExtInit
  /\ CallIdle
  /\ ServerInit

Next ==
  \/ Activate
  \/ StartResolved
  \/ \E err \in StartErrors : StartRejected(err)
  \/ \E affects \in BOOLEAN, s \in Settings : ConfigurationChanged(affects, s)
  \/ \E d \in 1..MaxDeactivateCalls : Deactivate(d)
  \/ \E d \in 1..MaxDeactivateCalls, ok \in BOOLEAN : StopSettled(d, ok)

Spec == Init /\ [][Next]_vars

(***************************************************************************)
(* Direct calls of the two pure functions on bounded inputs                *)
(***************************************************************************)
CallInit ==
  /\ workspaceFolders \in Workspaces
  /\ setting = <<>>
  /\ ExtInit
  /\ rawValue \in RawValues
  /\ resolvePc = "idle"
  /\ result = <<>>
  /\ ServerInit

CallResolveServerCommand ==
  /\ resolvePc = "idle"
  /\ result' = resolveServerCommand(rawValue, workspaceFolders)
  /\ resolvePc' = "resolved"
  /\ UNCHANGED << workspaceFolders, extVars, rawValue, srvVars >>

\* the raw value is the setting; absent when undefinedSetting
CallGetServerCommand(undefinedSetting) ==
  /\ resolvePc = "idle"
  /\ result' = getServerCommand(IF undefinedSetting THEN Undefined ELSE rawValue,
                                workspaceFolders)
  /\ resolvePc' = IF undefinedSetting THEN "gotUnset" ELSE "got"
  /\ UNCHANGED << workspaceFolders, extVars, rawValue, srvVars >>

CallNext ==
  \/ CallResolveServerCommand
  \/ \E u \in BOOLEAN : CallGetServerCommand(u)

CallSpec == CallInit /\ [][CallNext]_vars

(***************************************************************************)
(* shrimpl-lsp: the document notifications.  A handler stores (or removes) *)
(* the text under the documents mutex, then publishes; handlers of         *)
(* different notifications interleave between the two.                     *)
(***************************************************************************)
Handler(kind, uri, textOpt) == [kind |-> kind, uri |-> uri, text |-> textOpt]

\* update_document, up to the call of reanalyze
update_document(uri, text) ==
  /\ Cardinality(inflight) < MaxInFlight
  /\ Handler("update", uri, << text >>) \notin inflight
  /\ documents' = [documents EXCEPT ![uri] = << text >>]
  /\ inflight' = inflight \cup { Handler("update", uri, << text >>) }
  /\ UNCHANGED << published, previous, checked, workspaceFolders, extVars, callVars >>

did_open(uri, text) == update_document(uri, text)

did_change(uri, text) == update_document(uri, text)

\* the text of a save is optional: <<>> or <<text>>; with a text the handler
\* calls update_document, without one it has nothing to hand to it
did_save(uri, textOpt) ==
  IF textOpt # <<>>
    THEN update_document(uri, textOpt[1])
    ELSE /\ Cardinality(inflight) < MaxInFlight
         /\ Handler("save", uri, <<>>) \notin inflight
         /\ inflight' = inflight \cup { Handler("save", uri, <<>>) }
         /\ UNCHANGED << documents, published, previous, checked,
                         workspaceFolders, extVars, callVars >>

\* as SaveReturns, re-analysing the stored text of the document
SaveReanalyzesStored(h) ==
  /\ h \in inflight
  /\ h.kind = "save"
  /\ inflight' = inflight \ { h }
  /\ IF documents[h.uri] # <<>>
       THEN /\ published' = Publish(published, h.uri, reanalyze(documents[h.uri][1]))
            /\ previous' = [previous EXCEPT ![h.uri] = published[h.uri]]
            /\ checked' = [checked EXCEPT ![h.uri] = InvokesChecker(documents[h.uri][1])]
       ELSE UNCHANGED << published, previous, checked >>
  /\ UNCHANGED << documents, workspaceFolders, extVars, callVars >>

\* a did_save without text returns: nothing was stored, analysed or published
SaveReturns(h) ==
  /\ h \in inflight
  /\ h.kind = "save"
  /\ inflight' = inflight \ { h }
  /\ UNCHANGED << documents, published, previous, checked,
                  workspaceFolders, extVars, callVars >>

did_close(uri) ==
  /\ Cardinality(inflight) < MaxInFlight
  /\ Handler("close", uri, <<>>) \notin inflight
  /\ documents' = [documents EXCEPT ![uri] = <<>>]
  /\ inflight' = inflight \cup { Handler("close", uri, <<>>) }
  /\ UNCHANGED << published, previous, checked, workspaceFolders, extVars, callVars >>

\* reanalyze(uri, text) of a handler: analysis of the text it was given, then publish
Reanalyze(h) ==
  /\ h \in inflight
  /\ h.kind = "update"
  /\ published' = Publish(published, h.uri, reanalyze(h.text[1]))
  /\ previous' = [previous EXCEPT ![h.uri] = published[h.uri]]
  /\ checked' = [checked EXCEPT ![h.uri] = InvokesChecker(h.text[1])]
  /\ inflight' = inflight \ { h }
  /\ UNCHANGED << documents, workspaceFolders, extVars, callVars >>

\* the publication of did_close: an empty set
ClearDiagnostics(h) ==
  /\ h \in inflight
  /\ h.kind = "close"
  /\ published' = Publish(published, h.uri, <<>>)
  /\ previous' = [previous EXCEPT ![h.uri] = published[h.uri]]
  /\ inflight' = inflight \ { h }
  /\ UNCHANGED << documents, checked, workspaceFolders, extVars, callVars >>

ServerStart ==
  /\ workspaceFolders = <<>>
  /\ setting = <<>>
  /\ ExtInit
  /\ CallIdle
  /\ ServerInit

Handlers == { Handler("update", u, << t >>) : u \in Uris, t \in Texts }
            \cup { Handler("close", u, <<>>) : u \in Uris }
            \cup { Handler("save", u, <<>>) : u \in Uris }

ServerNext ==
  \/ \E u \in Uris, t \in Texts : did_open(u, t)
  \/ \E u \in Uris, t \in Texts : did_change(u, t)
  \/ \E u \in Uris, t \in { <<>> } \cup { << x >> : x \in Texts } : did_save(u, t)
  \/ \E u \in Uris : did_close(u)
  \/ \E h \in Handlers : Reanalyze(h)
  \/ \E h \in Handlers : ClearDiagnostics(h)
  \/ \E h \in Handlers : SaveReturns(h)

\* notifications handled concurrently
ServerSpec == ServerStart /\ [][ServerNext]_vars

\* notifications handled one after the other: a handler starts when none is in flight
SequentialNext ==
  \/ inflight = {} /\ \E u \in Uris, t \in Texts : did_open(u, t)
  \/ inflight = {} /\ \E u \in Uris, t \in Texts : did_change(u, t)
  \/ inflight = {} /\ \E u \in Uris, t \in { <<>> } \cup { << x >> : x \in Texts } : did_save(u, t)
  \/ inflight = {} /\ \E u \in Uris : did_close(u)
  \/ \E h \in Handlers : Reanalyze(h)
  \/ \E h \in Handlers : ClearDiagnostics(h)
  \/ \E h \in Handlers : SaveReturns(h)

SequentialSpec == ServerStart /\ [][SequentialNext]_vars

(***************************************************************************)
(* Properties of the extension (Spec)                                      *)
(***************************************************************************)
ConfigurationEvent ==
  affectingEvents' # affectingEvents \/ otherEvents' # otherEvents

\* C1: within one activation client.start() is called at most once and the
\* server command is resolved at most once, whatever the start outcome; a
\* configuration-change event never stops or starts the client, never resolves
\* the command again and leaves the client and its command as they are.
SpawnedOncePerActivation ==
  /\ [](startCalls <= 1 /\ resolveCalls <= 1)
  /\ [][ConfigurationEvent =>
          UNCHANGED << startCalls, stopCalls, resolveCalls, serverCommand, client,
                       startOutcome, activatePc >>]_vars

\* the start has settled, 'shrimpl.lsp.path' changed afterwards to a value that
\* resolves to another command, and the client still has the old one
SpawnedOnceWitness ==
  /\ activatePc = "done"
  /\ affectingEvents >= 1
  /\ startCalls = 1
  /\ Len(notifications) >= 2
  /\ serverCommand # getServerCommand(SettingValue(setting), workspaceFolders)

\* C2: when client.start() is rejected, activate() has completed without
\* rejecting, the failure message is a line of the output channel and an error
\* notification, and start was called once and not again.
StartFailureCaught ==
  startOutcome = "rejected" =>
    /\ activatePc = "done"
    /\ startCalls = 1
    /\ \E i \in 1..Len(outputChannel) :
         outputChannel[i] = Line("failed", ErrorMessage(startError))
    /\ \E i \in 1..Len(notifications) :
         notifications[i] = Notification("error", "failed", ErrorMessage(startError))

\* the start was rejected with a value that is not an Error, and configuration
\* events were handled afterwards
StartFailureWitness ==
  /\ startOutcome = "rejected"
  /\ ~startError.isError
  /\ Len(notifications) >= 2
  /\ activatePc = "done"

\* C7: once activate() has completed, an event that affects 'shrimpl.lsp.path'
\* appends exactly one line to the output channel and shows exactly one
\* information notification, and an event that does not affect it produces
\* neither; both leave the client, its command and the call counts unchanged.
ConfigurationChangeReportedNotApplied ==
  [][(ConfigurationEvent /\ activatePc = "done") =>
       /\ UNCHANGED << client, serverCommand, startCalls, stopCalls, resolveCalls >>
       /\ IF affectingEvents' # affectingEvents
            THEN /\ outputChannel' = Append(outputChannel, Line("configChanged", <<>>))
                 /\ notifications' =
                      Append(notifications,
                             Notification("information", "configChanged", <<>>))
            ELSE UNCHANGED << outputChannel, notifications >>]_vars

\* after a failed start, one event that affects the key was reported last and one
\* that does not affect it was handled too
ConfigurationChangeWitness ==
  /\ activatePc = "done"
  /\ startOutcome = "rejected"
  /\ affectingEvents = 1
  /\ otherEvents = 1
  /\ outputChannel[Len(outputChannel)] = Line("configChanged", <<>>)
  /\ Len(notifications) = 2

(***************************************************************************)
(* Properties of getServerCommand and resolveServerCommand (CallSpec)      *)
(***************************************************************************)
IsBlank(s) == \A i \in 1..Len(s) : s[i] \in {" ", "\t", "\n", "\r"}

HasVariable(s) ==
  \E i \in 1..Len(s) :
    MatchesAt(s, i, WorkspaceFolderVar) \/ MatchesAt(s, i, WorkspaceFolderBasenameVar)

HasNoSlash(s) == \A i \in 1..Len(s) : s[i] # "/" /\ s[i] # "\\"

\* C8: with the setting unset, empty or only whitespace, getServerCommand returns
\* exactly "shrimpl-lsp", with or without a workspace folder.
UnconfiguredFallsBackToBareCommand ==
  /\ resolvePc = "gotUnset" => result = DefaultCommand
  /\ (resolvePc = "got" /\ IsBlank(rawValue)) => result = DefaultCommand

\* a setting of whitespace only, with a workspace folder open
UnconfiguredWitness ==
  /\ resolvePc = "got"
  /\ Len(rawValue) >= 2
  /\ IsBlank(rawValue)
  /\ HasFolder(workspaceFolders)
  /\ result = DefaultCommand

\* C9 as stated: every value that is a relative path (it has a slash and is not
\* absolute once substituted) comes back joined under the first workspace folder.
RelativeAlwaysJoined ==
  LET sub == Substituted(rawValue, workspaceFolders)
  IN (resolvePc = "resolved" /\ ~HasNoSlash(sub) /\ ~isAbsolute(sub)) =>
       /\ HasFolder(workspaceFolders)
       /\ result = join(workspaceFolders[1].fsPath, sub)

\* C9 amended: a relative path is joined under the first workspace folder when a
\* workspace folder is open; with no folder open it is returned as substituted,
\* not joined; an absolute value is returned without joining.
RelativeJoinedWhenFolderOpen ==
  LET sub == Substituted(rawValue, workspaceFolders)
  IN resolvePc = "resolved" =>
       /\ (~HasNoSlash(sub) /\ ~isAbsolute(sub) /\ HasFolder(workspaceFolders))
            => result = join(workspaceFolders[1].fsPath, sub)
       /\ (~HasNoSlash(sub) /\ ~isAbsolute(sub) /\ ~HasFolder(workspaceFolders))
            => result = sub
       /\ isAbsolute(sub) => result = sub

\* a relative path with a ".." segment, joined and normalized under the folder
RelativeJoinedWitness ==
  /\ resolvePc = "resolved"
  /\ rawValue = <<"a", "/", ".", ".">>
  /\ HasFolder(workspaceFolders)
  /\ result = workspaceFolders[1].fsPath

LatestPublishedIsOfLatestStored ==
  inflight = {} =>
    \A u \in Uris : documents[u] # <<>> => published[u] = reanalyze(documents[u][1])

\* C4 (ServerSpec): when no handler is in flight, a document that is absent from
\* the store has an empty published set.
ClosedHasNoDiagnostics ==
  \A u \in Uris :
    (inflight = {} /\ documents[u] = <<>>) => published[u] = <<>>

\* C5 (SequentialSpec): after any sequence of open/change/save handled one after
\* the other, the published set is the analysis of the last text alone; for a
\* text that parses and checks cleanly it is empty, whatever was published before.
DiagnosticsReplaceNotMerge ==
  \A u \in Uris :
    (inflight = {} /\ documents[u] # <<>>) =>
      /\ published[u] = reanalyze(documents[u][1])
      /\ documents[u][1].kind = "clean" => published[u] = <<>>

\* a clean text is stored and its set is empty, right after a set with errors
ReplaceNotMergeWitness ==
  \E u \in Uris :
    /\ inflight = {}
    /\ documents[u] = << Text("clean", 0) >>
    /\ published[u] = <<>>
    /\ Len(previous[u]) = 2

\* C6 (SequentialSpec): for a text the parser rejects with "Line N: ...", the
\* published set is exactly one diagnostic, at line N-1, columns 0 to 200,
\* severity Error, and the static checker was not called for it.
ParseFailureIsOneDiagnostic ==
  \A u \in Uris :
    (inflight = {} /\ documents[u] # <<>> /\ documents[u][1].kind = "syntax") =>
      /\ Len(published[u]) = 1
      /\ published[u][1].line = documents[u][1].line - 1
      /\ published[u][1].startCol = 0
      /\ published[u][1].endCol = 200
      /\ published[u][1].severity = "Error"
      /\ ~checked[u]

\* "Line 12: ..." was published at line 11 for one document, after the checker
\* had run on its earlier text, and the other document was served as well
ParseFailureWitness ==
  \E u \in Uris, v \in Uris :
    /\ u # v
    /\ inflight = {}
    /\ documents[u] = << Text("syntax", 12) >>
    /\ Len(published[u]) = 1
    /\ published[u][1].line = 11
    /\ Len(previous[u]) = 2
    /\ documents[v] = << Text("static", 0) >>
    /\ Len(published[v]) = 2

(***************************************************************************)
(* Properties of did_save (SequentialSpec)                                 *)
(***************************************************************************)
\* the did_save without text h returns in this step
SaveWithoutTextReturns(h) == h.kind = "save" /\ h \in inflight /\ h \notin inflight'

Calls == DOMAIN deactivatePc

\* C13 as stated: stop() is invoked at most once for the client activate() created.
StopCalledAtMostOnce == stopCalls <= 1

\* C13 amended: a deactivate() call made while the client reference is set calls
\* stop() (also after a failed start), and the reference is cleared when stop()
\* settles, resolved or rejected; a call made with no client returns and changes
\* nothing; a call that starts while no earlier call awaits stop() calls stop()
\* only if stop() was never called before, so calls made one after the other
\* call stop() at most once (a call that starts during the await of an earlier
\* one calls stop() again).
DeactivateStopsAndClears ==
  /\ [][\A d \in Calls :
          /\ (deactivatePc[d] = "idle" /\ deactivatePc'[d] # "idle") =>
               IF client = Undefined
                 THEN /\ deactivatePc'[d] = "returned"
                      /\ UNCHANGED << client, stopCalls, startCalls, activatePc,
                                      outputChannel, notifications >>
                 ELSE /\ deactivatePc'[d] = "awaitStop"
                      /\ stopCalls' = stopCalls + 1
          /\ (deactivatePc[d] = "awaitStop" /\ deactivatePc'[d] # "awaitStop") =>
               client' = Undefined]_vars
  /\ [][(stopCalls' # stopCalls /\ \A e \in Calls : deactivatePc[e] # "awaitStop")
          => stopCalls = 0]_vars

\* after a failed start, the first deactivate() called stop(), which failed, and
\* the reference was cleared all the same: the second call did nothing
DeactivateWitness ==
  /\ startOutcome = "rejected"
  /\ deactivatePc[1] = "rejected"
  /\ deactivatePc[2] = "returned"
  /\ stopCalls = 1
  /\ client = Undefined

====
